---- MODULE Spec2Model ----
(***************************************************************************)
(* rusty-scape: the simulation core of src/game.rs.                        *)
(*                                                                         *)
(* The state is GameState {player, obstacles, score}.  One action per      *)
(* handler of the ggez EventHandler: Tick is one iteration of the body of  *)
(* the fixed-timestep loop of GameState::update, KeyDown is                *)
(* GameState::key_down_event.  draw() reads only and is not modelled.      *)
(* The score is counted in increments of 0.1 (the f32 rounding of the      *)
(* repeated addition is not modelled).                                     *)
(***************************************************************************)
EXTENDS Integers, Sequences, FiniteSets, TLC

VARIABLES player, obstacles, score, ticks, ev

vars == <<player, obstacles, score, ticks, ev>>

(* ---------------------------- constants ------------------------------- *)

\* const GRID_SIZE: (i16, i16) = (30, 20)
GRID_SIZE == <<30, 20>>

\* the tolerance Player::update passes to Player::die
TOLERANCE == 1

(* ------------------------------ bounds -------------------------------- *)

\* a run of Spec is at most MaxTicks ticks long
MaxTicks == 3
\* a run of SpecNoSpawn is at most MaxLongTicks ticks long: enough to walk
\* from the start column past a grid edge
MaxLongTicks == 18
\* the spawn step adds an obstacle only while fewer than MaxObstacles exist
MaxObstacles == 2
\* a run of SpecAlwaysSpawn has at most MaxSpawnTicks ticks that spawn
MaxSpawnTicks == 5

(* ----------------------------- GridPosition --------------------------- *)

Abs(n) == IF n < 0 THEN -n ELSE n

\* GridPosition::new
GridPosition(x, y) == [x |-> x, y |-> y]

\* the values rng.gen_range(0..GRID_SIZE.0) is drawn from, reduced to the
\* first and the last column of the grid and the columns within the
\* collision tolerance of the player's start column
RandCols ==
    {c \in 0 .. GRID_SIZE[1] - 1 :
        \/ c = 0
        \/ c = GRID_SIZE[1] - 1
        \/ Abs(c - GRID_SIZE[1] \div 2) <= TOLERANCE}

\* the values rng.gen_range(0..GRID_SIZE.1) is drawn from
RandRows == 0 .. GRID_SIZE[2] - 1

\* GridPosition::random: the set of its possible results
RandomPositions == {GridPosition(c, r) : c \in RandCols, r \in RandRows}

\* new_for_move whose Right arm also changes the row
new_for_move_diagonal(pos, dir) ==
    CASE dir = "Left"  -> GridPosition(pos.x - 1, pos.y)
      [] dir = "Right" -> GridPosition(pos.x + 1, pos.y + 1)
      [] OTHER         -> pos

\* GridPosition::new_for_move
new_for_move(pos, dir) ==
    CASE dir = "Left"  -> GridPosition(pos.x - 1, pos.y)
      [] dir = "Right" -> GridPosition(pos.x + 1, pos.y)
      [] OTHER         -> pos

(* ------------------------------ Direction ----------------------------- *)

\* the key codes delivered by the input source; "NoKeycode" is
\* input.keycode = None, "Space" stands for every other key
KeyCodes == {"Left", "Right", "Space", "NoKeycode"}

\* Direction::from_keycode after Option::and_then: "Nothing" is Option::None
from_keycode(keycode) ==
    CASE keycode = "Left"  -> "Left"
      [] keycode = "Right" -> "Right"
      [] OTHER             -> "Nothing"

(* ------------------------------- Obstacle ----------------------------- *)

\* Obstacle::new
Obstacle(pos) == [pos |-> pos]

(* -------------------------------- Player ------------------------------ *)

\* the fixed start coordinate of Player, as written in GameState::new and
\* in Player::update
StartPos == GridPosition(GRID_SIZE[1] \div 2, GRID_SIZE[2] - 1)

\* Player::new
PlayerNew(pos) == [pos |-> pos, dir |-> "None", state |-> "Alive"]

\* is_approx_equal with strict comparisons: adjacency no longer counts
is_approx_equal_strict(pos1, pos2, tolerance) ==
    LET dx == Abs(pos1.x - pos2.x)
        dy == Abs(pos1.y - pos2.y)
    IN  dx < tolerance /\ dy < tolerance

\* is_approx_equal with || in place of &&: one axis is enough
is_approx_equal_or(pos1, pos2, tolerance) ==
    LET dx == Abs(pos1.x - pos2.x)
        dy == Abs(pos1.y - pos2.y)
    IN  dx <= tolerance \/ dy <= tolerance

\* is_approx_equal as plain equality of the two positions
is_approx_equal_exact(pos1, pos2, tolerance) ==
    pos1 = pos2

\* is_approx_equal, the helper nested in Player::die
is_approx_equal(pos1, pos2, tolerance) ==
    LET dx == Abs(pos1.x - pos2.x)
        dy == Abs(pos1.y - pos2.y)
    IN  dx <= tolerance /\ dy <= tolerance

\* Player::die
die(p, obs, tolerance) ==
    \E i \in 1 .. Len(obs) : is_approx_equal(p.pos, obs[i].pos, tolerance)

\* Player::update that writes the state on both branches: a player that
\* does not collide is Alive again
PlayerUpdateRevive(p, dir, obs) ==
    LET moved == [p EXCEPT !.pos = new_for_move(p.pos, dir), !.dir = dir]
    IN  IF die(moved, obs, TOLERANCE)
        THEN [moved EXCEPT !.state = "Dead", !.pos = StartPos, !.dir = "None"]
        ELSE [moved EXCEPT !.state = "Alive"]

\* Player::update without the two resets that follow the death
PlayerUpdateNoReset(p, dir, obs) ==
    LET moved == [p EXCEPT !.pos = new_for_move(p.pos, dir), !.dir = dir]
    IN  IF die(moved, obs, TOLERANCE)
        THEN [moved EXCEPT !.state = "Dead"]
        ELSE moved

\* Player::update
PlayerUpdate(p, dir, obs) ==
    LET moved == [p EXCEPT !.pos = new_for_move(p.pos, dir), !.dir = dir]
    IN  IF die(moved, obs, TOLERANCE)
        THEN [moved EXCEPT !.state = "Dead", !.pos = StartPos, !.dir = "None"]
        ELSE moved

(* ------------------------------ GameState ----------------------------- *)

\* the for loop advancing the column in place of the row
AdvanceX(obs) ==
    [i \in 1 .. Len(obs) |-> Obstacle(GridPosition(obs[i].pos.x + 1, obs[i].pos.y))]

\* the for loop of update_obstacle: every row + 1
Advance(obs) ==
    [i \in 1 .. Len(obs) |-> Obstacle(GridPosition(obs[i].pos.x, obs[i].pos.y + 1))]

\* self.obstacles.retain(|obstacle| obstacle.pos.y < GRID_SIZE.1)
InGrid(o) == o.pos.y < GRID_SIZE[2]
\* retain with <= in place of <: row GRID_SIZE.1 survives
InGridOffByOne(o) == o.pos.y <= GRID_SIZE[2]
RetainOffByOne(obs) == SelectSeq(obs, InGridOffByOne)
Retain(obs) == SelectSeq(obs, InGrid)

\* update_obstacle with the spawn test inverted (>= in place of <)
update_obstacle_inverted(obs, spawn, col) ==
    LET kept == Retain(Advance(obs))
    IN  IF ~spawn THEN Append(kept, Obstacle(GridPosition(col, 0))) ELSE kept

\* update_obstacle that spawns first: the new obstacle is advanced in the
\* tick that creates it
update_obstacle_spawn_first(obs, spawn, col) ==
    LET all == IF spawn THEN Append(obs, Obstacle(GridPosition(col, 0))) ELSE obs
    IN  Retain(Advance(all))

\* update_obstacle that inserts the new obstacle at the front
update_obstacle_prepend(obs, spawn, col) ==
    LET kept == Retain(Advance(obs))
    IN  IF spawn THEN <<Obstacle(GridPosition(col, 0))>> \o kept ELSE kept

\* GameState::update_obstacle; spawn is the outcome of
\* rand::random::<f32>() < 0.1 and col the column drawn
update_obstacle(obs, spawn, col) ==
    LET kept == Retain(Advance(obs))
    IN  IF spawn THEN Append(kept, Obstacle(GridPosition(col, 0))) ELSE kept

\* the boundary tests with > in place of >= at the right edge
BounceOffByOne(p) ==
    LET p1 == IF p.pos.x < 0 /\ p.dir = "Left"
              THEN [p EXCEPT !.dir = "Right"] ELSE p
    IN  IF p1.pos.x > GRID_SIZE[1] /\ p1.dir = "Right"
        THEN [p1 EXCEPT !.dir = "Left"] ELSE p1

\* the two boundary tests of GameState::update
Bounce(p) ==
    LET p1 == IF p.pos.x < 0 /\ p.dir = "Left"
              THEN [p EXCEPT !.dir = "Right"] ELSE p
    IN  IF p1.pos.x >= GRID_SIZE[1] /\ p1.dir = "Right"
        THEN [p1 EXCEPT !.dir = "Left"] ELSE p1

\* the score incremented without the test of the player's state
ScoreAfterAlways(p, s) == s + 1

\* the score after one loop iteration
ScoreAfter(p, s) == IF p.state = "Alive" THEN s + 1 ELSE s

\* GameState::new
Init ==
    /\ player = PlayerNew(StartPos)
    /\ \E pos \in RandomPositions : obstacles = <<Obstacle(pos)>>
    /\ score = 0
    /\ ticks = 0
    /\ ev = [op |-> "new", arg |-> "None", hit |-> FALSE]

\* the loop body with its first two statements exchanged: update_obstacle
\* runs before the player's update
TickWithObstaclesFirst(limit, spawn, col) ==
    /\ ticks < limit
    /\ LET obs1 == update_obstacle(obstacles, spawn, col)
           moved == new_for_move(player.pos, player.dir)
           hit == die([player EXCEPT !.pos = moved], obs1, TOLERANCE)
           p1 == PlayerUpdate(player, player.dir, obs1)
           p2 == Bounce(p1)
       IN  /\ player' = p2
           /\ obstacles' = obs1
           /\ score' = ScoreAfter(p2, score)
           /\ ev' = [op |-> "tick", arg |-> player.dir, hit |-> hit]
    /\ ticks' = ticks + 1

\* the loop body skipped once the player is Dead
TickWithHaltOnDeath(limit, spawn, col) ==
    /\ ticks < limit
    /\ player.state = "Alive"
    /\ LET moved == new_for_move(player.pos, player.dir)
           hit == die([player EXCEPT !.pos = moved], obstacles, TOLERANCE)
           p1 == PlayerUpdate(player, player.dir, obstacles)
           p2 == Bounce(p1)
       IN  /\ player' = p2
           /\ obstacles' = update_obstacle(obstacles, spawn, col)
           /\ score' = ScoreAfter(p2, score)
           /\ ev' = [op |-> "tick", arg |-> player.dir, hit |-> hit]
    /\ ticks' = ticks + 1

\* one iteration of the loop body of GameState::update; spawn is the outcome
\* of rand::random::<f32>() < 0.1 and col the column drawn
TickWith(limit, spawn, col) ==
    /\ ticks < limit
    /\ LET moved == new_for_move(player.pos, player.dir)
           hit == die([player EXCEPT !.pos = moved], obstacles, TOLERANCE)
           p1 == PlayerUpdate(player, player.dir, obstacles)
           p2 == Bounce(p1)
       IN  /\ player' = p2
           /\ obstacles' = update_obstacle(obstacles, spawn, col)
           /\ score' = ScoreAfter(p2, score)
           /\ ev' = [op |-> "tick", arg |-> player.dir, hit |-> hit]
    /\ ticks' = ticks + 1

\* a tick whose spawn test fails
TickNoSpawn(limit) == TickWith(limit, FALSE, 0)

\* a tick whose spawn test succeeds
TickSpawn(limit) ==
    /\ Len(Retain(Advance(obstacles))) < MaxObstacles
    /\ \E col \in RandCols : TickWith(limit, TRUE, col)

\* key_down_event that drops the event when the player is Dead
KeyDownAliveOnly ==
    \E keycode \in KeyCodes :
        LET dir == from_keycode(keycode)
        IN  /\ player' = IF (dir = "Left" \/ dir = "Right") /\ player.state = "Alive"
                         THEN [player EXCEPT !.dir = dir] ELSE player
            /\ ev' = [op |-> "key", arg |-> dir, hit |-> FALSE]
            /\ UNCHANGED <<obstacles, score, ticks>>

\* key_down_event with the lockout of the opposite direction: Left is
\* dropped while the player holds Right, and Right while it holds Left
KeyDownNoReverse ==
    \E keycode \in KeyCodes :
        LET dir == from_keycode(keycode)
            opposite == (dir = "Left" /\ player.dir = "Right")
                        \/ (dir = "Right" /\ player.dir = "Left")
        IN  /\ player' = IF (dir = "Left" \/ dir = "Right") /\ ~opposite
                         THEN [player EXCEPT !.dir = dir] ELSE player
            /\ ev' = [op |-> "key", arg |-> dir, hit |-> FALSE]
            /\ UNCHANGED <<obstacles, score, ticks>>

\* GameState::key_down_event
KeyDown ==
    \E keycode \in KeyCodes :
        LET dir == from_keycode(keycode)
        IN  /\ player' = IF dir = "Left" \/ dir = "Right"
                         THEN [player EXCEPT !.dir = dir] ELSE player
            /\ ev' = [op |-> "key", arg |-> dir, hit |-> FALSE]
            /\ UNCHANGED <<obstacles, score, ticks>>

Next == TickNoSpawn(MaxTicks) \/ TickSpawn(MaxTicks) \/ KeyDown

Spec == Init /\ [][Next]_vars

\* the runs in which the spawn test never succeeds, followed for longer
NextNoSpawn == TickNoSpawn(MaxLongTicks) \/ KeyDown

SpecNoSpawn == Init /\ [][NextNoSpawn]_vars

\* the states GameState::new and one tick without spawn leave with an
\* empty collection: the seed obstacle was in the bottom row and is culled
InitEmpty ==
    \E seed \in {pos \in RandomPositions : pos.y = GRID_SIZE[2] - 1} :
        LET p0 == PlayerNew(StartPos)
            p2 == Bounce(PlayerUpdate(p0, p0.dir, <<Obstacle(seed)>>))
        IN  /\ player = p2
            /\ obstacles = update_obstacle(<<Obstacle(seed)>>, FALSE, 0)
            /\ score = ScoreAfter(p2, 0)
            /\ ticks = 1
            /\ ev = [op |-> "tick", arg |-> p0.dir,
                     hit |-> die(p0, <<Obstacle(seed)>>, TOLERANCE)]

\* a tick whose spawn test succeeds, whatever the size of the collection
TickForcedSpawn(limit) ==
    \E col \in RandCols : TickWith(limit, TRUE, col)

\* the runs that go on, from an empty collection and without input, with
\* ticks whose spawn test succeeds every time
NextAlwaysSpawn == TickForcedSpawn(1 + MaxSpawnTicks)

SpecAlwaysSpawn == InitEmpty /\ [][NextAlwaysSpawn]_vars

(* ------------------------------ properties ---------------------------- *)

TypeOK ==
    /\ player.state \in {"Alive", "Dead"}
    /\ player.dir \in {"Left", "Right", "None"}
    /\ score \in 0 .. ticks

\* the column a player p occupies after moving by its stored direction
MovedX(p) ==
    CASE p.dir = "Left"  -> p.pos.x - 1
      [] p.dir = "Right" -> p.pos.x + 1
      [] OTHER           -> p.pos.x

\* obstacle o is within 1 of the cell (x, y) in both axes
Within1(x, y, o) ==
    /\ o.pos.x - x \in -1 .. 1
    /\ o.pos.y - y \in -1 .. 1

\* C1. Culling invariant: in the initial state and after every tick, no
\* obstacle of the collection has row >= H = 20.
C1_Culling ==
    \A i \in 1 .. Len(obstacles) : obstacles[i].pos.y < 20

\* a tick has just culled the last obstacle of the collection
C1_Witness ==
    /\ ev.op = "tick"
    /\ obstacles = << >>

\* C2. Score monotonicity: a tick that ends with the player Alive adds
\* exactly one increment to the score, a tick that ends with the player Dead
\* (the death tick included) leaves it unchanged, and so does a key event.
C2_ScoreStep ==
    [][ /\ (ev'.op = "tick" /\ player'.state = "Alive" => score' = score + 1)
        /\ (ev'.op = "tick" /\ player'.state = "Dead" => score' = score)
        /\ (ev'.op = "key" => score' = score) ]_vars

\* a tick after the death tick has run and the score is still the one
\* earned while Alive
C2_Witness ==
    /\ player.state = "Dead"
    /\ ev.op = "tick"
    /\ ~ev.hit
    /\ score >= 1
    /\ ticks >= score + 2

\* C3. Once the player's state is Dead it is Dead in every later state:
\* no tick and no key event takes Dead back to Alive.
C3_DeadForever ==
    [][player.state = "Dead" => player'.state = "Dead"]_vars

\* a Dead player has been steered away from the start cell, where the
\* death put it, by later key events and ticks
C3_Witness ==
    /\ player.state = "Dead"
    /\ player.pos.x # 15

\* C4 as stated: an obstacle within 1 of the player in both axes before the
\* player update means the update leaves the player Dead, whatever the
\* direction held.
C4_PreMoveCollision ==
    [][ ev'.op = "tick"
        /\ (\E i \in 1 .. Len(obstacles) :
                Within1(player.pos.x, player.pos.y, obstacles[i]))
        => player'.state = "Dead" ]_vars

\* C4 as amended: an obstacle within 1, in both axes, of the cell the player
\* occupies after moving by the direction held (its current cell when the
\* direction is None) means the update leaves the player Dead.
C4_PostMoveCollision ==
    [][ ev'.op = "tick"
        /\ (\E i \in 1 .. Len(obstacles) :
                Within1(MovedX(player), player.pos.y, obstacles[i]))
        => player'.state = "Dead" ]_vars

\* a player moving Right has just run into an obstacle
C4_Witness ==
    /\ ev.op = "tick"
    /\ ev.hit
    /\ ev.arg = "Right"
    /\ player.state = "Dead"

\* C5. A player update on an Alive player moves the player by the direction
\* and then sets the state to Dead if and only if some obstacle of the
\* collection passed is within 1 of the moved position in both axes; a
\* player that stays Alive is at the moved position.
C5_CollisionIff ==
    [][ ev'.op = "tick" /\ player.state = "Alive"
        => /\ player'.state = "Dead"
                <=> \E i \in 1 .. Len(obstacles) :
                        /\ obstacles[i].pos.x - MovedX(player) \in -1 .. 1
                        /\ obstacles[i].pos.y - player.pos.y \in -1 .. 1
           /\ player'.state = "Alive"
                => player'.pos = [x |-> MovedX(player), y |-> player.pos.y] ]_vars

\* a moving player is still Alive after a tick that started with an
\* obstacle one row above it and two columns from the moved position
C5_Witness ==
    /\ ev.op = "tick"
    /\ ev.arg # "None"
    /\ player.state = "Alive"
    /\ \E i \in 1 .. Len(obstacles) :
           /\ obstacles[i].pos.y = 19
           /\ obstacles[i].pos.x - player.pos.x \in {-2, 2}

\* C6 as stated: the collision test of a tick sees the obstacle collection
\* as it stands after that tick's advance and cull.
C6_TestAfterAdvance ==
    [][ ev'.op = "tick" /\ player.state = "Alive"
        => (player'.state = "Dead"
                <=> \E i \in 1 .. Len(obstacles') :
                        Within1(MovedX(player), player.pos.y, obstacles'[i])) ]_vars

\* C6 as amended: the player is moved and tested first, against the
\* collection as the previous tick left it, and only then are the obstacles
\* advanced, culled and spawned.  An obstacle of the bottom row next to the
\* moved player kills it in the tick that culls the obstacle; a collection
\* whose rows are all above H - 2 kills nobody, although the advance may
\* bring an obstacle next to the player.
C6_TestBeforeAdvance ==
    [][ ev'.op = "tick" /\ player.state = "Alive"
        => /\ (\E i \in 1 .. Len(obstacles) :
                  /\ obstacles[i].pos.y = 19
                  /\ obstacles[i].pos.x - MovedX(player) \in -1 .. 1)
              => player'.state = "Dead" /\ Len(obstacles') <= Len(obstacles)
           /\ (\A i \in 1 .. Len(obstacles) : obstacles[i].pos.y < 18)
              => player'.state = "Alive" ]_vars

\* a tick has ended with a live player and an obstacle that the advance
\* has just put next to it
C6_Witness ==
    /\ ev.op = "tick"
    /\ player.state = "Alive"
    /\ \E i \in 1 .. Len(obstacles) :
           /\ obstacles[i].pos.y = 18
           /\ obstacles[i].pos.x - player.pos.x \in -1 .. 1

\* C7. Boundary bounce: a tick that starts with the player at x = -1 and the
\* stored direction Left, and detects no collision, ends with the stored
\* direction Right and the player's x still -1.
C7_BounceKeepsX ==
    [][ ev'.op = "tick" /\ ~ev'.hit
        /\ player.pos.x = -1 /\ player.dir = "Left"
        => player'.dir = "Right" /\ player'.pos.x = -1 ]_vars

\* C8. GameState::new yields an Alive player with direction None at
\* (15, 19), score 0, and exactly one obstacle, in row 0 and in a column of
\* [0, 30).
C8_InitialState ==
    ev.op = "new"
    => /\ player = [pos |-> [x |-> 15, y |-> 19], dir |-> "None", state |-> "Alive"]
       /\ score = 0
       /\ Len(obstacles) = 1
       /\ obstacles[1].pos.y = 0
       /\ obstacles[1].pos.x \in 0 .. 29

\* C9. A tick in which a collision is detected ends with the player Dead,
\* at the start coordinate (15, 19), with stored direction None.
C9_DeathResets ==
    ev.op = "tick" /\ ev.hit
    => /\ player.state = "Dead"
       /\ player.pos = [x |-> 15, y |-> 19]
       /\ player.dir = "None"

\* a player moving Left has collided in a tick later than the first
C9_Witness ==
    /\ ev.op = "tick"
    /\ ev.hit
    /\ ev.arg = "Left"
    /\ ticks >= 2

\* C10 as stated: a key event delivered while the player is Dead leaves the
\* stored direction unchanged.
C10_DeadIgnoresKeys ==
    [][ ev'.op = "key" /\ player.state = "Dead"
        => player'.dir = player.dir ]_vars

\* C10 as amended: a Left or Right key event delivered while the player is
\* Dead is accepted like any other: it sets the stored direction to that
\* direction and changes neither position nor state; a later tick without
\* collision moves the Dead player by the stored direction.
C10_DeadObeysKeys ==
    [][ /\ ev'.op = "key" /\ player.state = "Dead" /\ ev'.arg \in {"Left", "Right"}
           => /\ player'.dir = ev'.arg
              /\ player'.pos = player.pos
              /\ player'.state = "Dead"
        /\ ev'.op = "tick" /\ player.state = "Dead" /\ ~ev'.hit
           => player'.pos = [x |-> MovedX(player), y |-> player.pos.y] ]_vars

\* a Dead player holds direction Left and a tick has moved it left of the
\* start column
C10_Witness ==
    /\ player.state = "Dead"
    /\ player.dir = "Left"
    /\ ev.op = "tick"
    /\ player.pos.x < 15

\* C11. The player's column is never more than one cell beyond a grid
\* edge: -1 <= player.x <= 30 in every reachable state.
C11_ColumnRange ==
    player.pos.x \in -1 .. 30

\* C12. Input frame condition: a key-down event for Left or Right sets the
\* stored direction to that direction, whatever the state and the direction
\* held, and changes nothing else; a key-down event for any other key (or
\* without a key code) changes nothing of the simulation state.
C12_KeyFrame ==
    [][ ev'.op = "key"
        => /\ ev'.arg \in {"Left", "Right"}
                => /\ player'.dir = ev'.arg
                   /\ player'.pos = player.pos
                   /\ player'.state = player.state
           /\ ev'.arg \notin {"Left", "Right"} => player' = player
           /\ obstacles' = obstacles
           /\ score' = score ]_vars

\* key Left has just reversed a live player that was holding Right away
\* from the start column
C12_Witness ==
    /\ ev.op = "key"
    /\ ev.arg = "Left"
    /\ player.dir = "Left"
    /\ player.state = "Alive"
    /\ player.pos.x > 15

\* C13. With the spawn step never firing, the number of obstacles after a
\* tick is at most the number before it, and key events leave it as it is.
C13_NoSpawnNoGrowth ==
    [][Len(obstacles') <= Len(obstacles)]_vars

\* the seed obstacle has been culled under a live player and nothing has
\* replaced it
C13_Witness ==
    /\ obstacles = << >>
    /\ player.state = "Alive"
    /\ ticks >= 2

\* C14. With the spawn step firing on every tick, 5 ticks after the
\* collection was empty it holds exactly 5 obstacles, and the obstacle
\* spawned in the i-th of these ticks, the i-th of the collection, is in row
\* 5 - i.  (ticks = 1 when the collection is empty, so ticks = 6 here.)
C14_FiveSpawns ==
    ticks = 6
    => /\ Len(obstacles) = 5
       /\ \A i \in 1 .. 5 : i <= Len(obstacles) => obstacles[i].pos.y = 5 - i

\* five ticks have spawned, the first and the last in different columns
C14_Witness ==
    /\ ticks = 6
    /\ ev.op = "tick"
    /\ Len(obstacles) = 5
    /\ obstacles[1].pos.x # obstacles[5].pos.x

\* C15. Bounce post-condition: right after a tick the player is not left
\* of the grid with stored direction Left nor at or beyond column W with
\* stored direction Right; and the bounce does not move the player: a tick
\* without collision ends at the position the move gave.
C15_BouncePost ==
    [][ ev'.op = "tick"
        => /\ ~(player'.pos.x < 0 /\ player'.dir = "Left")
           /\ ~(player'.pos.x >= 30 /\ player'.dir = "Right")
           /\ ~ev'.hit => player'.pos = [x |-> MovedX(player), y |-> player.pos.y] ]_vars

\* a player that walked right has just been turned round at column W
C15_Witness ==
    /\ ev.op = "tick"
    /\ ev.arg = "Right"
    /\ player.pos.x = 30
    /\ player.dir = "Left"

\* the number of obstacles among the first i of obs that the cull of this
\* tick keeps (their row is below H - 1 = 19 before the advance)
Rank(obs, i) == Cardinality({m \in 1 .. i : obs[m].pos.y < 19})

\* the obstacle step relating the collection before a tick to the one after
ObstacleStep(old, new) ==
    LET k == Rank(old, Len(old))
    IN  /\ Len(new) \in {k, k + 1}
        /\ \A i \in 1 .. Len(old) :
               old[i].pos.y < 19
               => /\ Rank(old, i) <= Len(new)
                  /\ new[Rank(old, i)].pos.x = old[i].pos.x
                  /\ new[Rank(old, i)].pos.y = old[i].pos.y + 1
        /\ Len(new) = k + 1
               => /\ new[k + 1].pos.y = 0
                  /\ new[k + 1].pos.x \in 0 .. 29

\* C16. Obstacle step: in one tick every obstacle that stays in the
\* collection has its row increased by exactly 1 and its column unchanged,
\* the survivors keep their relative order, and at most one obstacle is
\* added, at the end, in row 0 and in a column of [0, 30).
C16_ObstacleStep ==
    [][ev'.op = "tick" => ObstacleStep(obstacles, obstacles')]_vars

\* a tick has advanced one obstacle and appended a new one behind it
C16_Witness ==
    /\ ev.op = "tick"
    /\ Len(obstacles) = 2
    /\ obstacles[1].pos.y >= 1
    /\ obstacles[2].pos.y = 0

\* C17. The simulation does not halt on death: with the player Dead a tick
\* is still enabled, and a tick that starts with the player Dead still
\* advances, culls and possibly spawns obstacles and still moves the player
\* by the stored direction; only the score stays as it is.
C17_TicksAfterDeath ==
    /\ [](player.state = "Dead" /\ ticks < MaxTicks => ENABLED TickNoSpawn(MaxTicks))
    /\ [][ ev'.op = "tick" /\ player.state = "Dead"
           => /\ ticks' = ticks + 1
              /\ ObstacleStep(obstacles, obstacles')
              /\ score' = score
              /\ ~ev'.hit => player'.pos.x = MovedX(player) ]_vars

\* a tick that started with the player Dead has moved the player and
\* spawned an obstacle
C17_Witness ==
    /\ player.state = "Dead"
    /\ ev.op = "tick"
    /\ ~ev.hit
    /\ ev.arg = "Right"
    /\ player.pos.x > 15
    /\ Len(obstacles) >= 1
    /\ obstacles[Len(obstacles)].pos.y = 0

\* C18 as stated: a tick never ends with a live player within 1 of an
\* obstacle in both axes, and key events do not change that.
C18_NoAdjacentObstacle ==
    ticks >= 1 /\ player.state = "Alive"
    => \A i \in 1 .. Len(obstacles) :
           ~Within1(player.pos.x, player.pos.y, obstacles[i])

\* C18 as amended: once a tick has run, a live player has no obstacle of
\* its own row (19) within 1 column; an obstacle of row 18, which the
\* advance moved next to the player after the test, may be within 1.
C18_NoObstacleInOwnRow ==
    ticks >= 1 /\ player.state = "Alive"
    => \A i \in 1 .. Len(obstacles) :
           ~(/\ obstacles[i].pos.y = 19
             /\ obstacles[i].pos.x - player.pos.x \in -1 .. 1)

\* between two ticks a live player that has moved stands two columns from
\* an obstacle of its own row
C18_Witness ==
    /\ ev.op = "key"
    /\ ticks >= 2
    /\ player.state = "Alive"
    /\ player.pos.x # 15
    /\ \E i \in 1 .. Len(obstacles) :
           /\ obstacles[i].pos.y = 19
           /\ obstacles[i].pos.x - player.pos.x \in {-2, 2}

\* C19. No two obstacles share a row: the collection is ordered by strictly
\* decreasing row, oldest first, so it never holds more than H = 20
\* obstacles and never two in one cell.
C19_RowsDecrease ==
    /\ \A i, j \in 1 .. Len(obstacles) :
           i < j => obstacles[i].pos.y > obstacles[j].pos.y
    /\ Len(obstacles) <= 20

\* two obstacles of the same column, the older one lower down
C19_Witness ==
    /\ Len(obstacles) = 2
    /\ obstacles[1].pos.x = obstacles[2].pos.x
    /\ obstacles[1].pos.y >= 2
    /\ obstacles[2].pos.y >= 1

\* C20. The player's row never changes: player.y = H - 1 = 19 in every
\* reachable state.
C20_PlayerRow ==
    player.pos.y = 19

\* a live player two columns right of the start column
C20_Witness ==
    /\ player.state = "Alive"
    /\ player.pos.x = 17
====
